---- MODULE Spec2Model ----
(***************************************************************************)
(* A model of ipo_alert_flow.py: the daily 09:00 (Asia/Dubai) scheduler,   *)
(* the job it runs (fetch, filter, render, send) and the pure helpers the  *)
(* job is built from.                                                      *)
(*                                                                         *)
(* Python values pulled out of the API's JSON are records [t, v, s]:       *)
(*   t = "none"   None (also what dict.get gives for an absent key)        *)
(*   t = "int"    a number, v its value (integer-valued inputs only)       *)
(*   t = "bigint" the int 10**400, too large for a float                   *)
(*   t = "str"    a string, s its characters                               *)
(*   t = "obj"    a non-empty nested list or mapping                       *)
(* Strings are sequences of one-character strings, so that slicing,        *)
(* stripping, parsing and formatting are computed, not assumed.            *)
(***************************************************************************)
EXTENDS Integers, Sequences, FiniteSets, TLC

\* ------------------------------------------------------------ bounds
\* Days the clock runs through (day d is the date 2024-03-1d).
MaxDay == 3
\* Longest list of entries in one API answer.
MaxItems == 3

\* ------------------------------------------------------ configuration
OFFER_AMOUNT_THRESHOLD == 200000000
RUN_HOUR_DUBAI == 9
RUN_MINUTE_DUBAI == 0

\* ----------------------------------------------------- Python values
None == [t |-> "none", v |-> 0, s |-> << >>]
I(n) == [t |-> "int", v |-> n, s |-> << >>]
Huge == [t |-> "bigint", v |-> 0, s |-> << >>]
S(chars) == [t |-> "str", v |-> 0, s |-> chars]
Obj == [t |-> "obj", v |-> 0, s |-> << >>]

\* bool(x)
Truthy(x) ==
    CASE x.t = "none" -> FALSE
      [] x.t = "int" -> x.v # 0
      [] x.t = "str" -> x.s # << >>
      [] OTHER -> TRUE

\* a or b
Or(a, b) == IF Truthy(a) THEN a ELSE b

Digits == <<"0", "1", "2", "3", "4", "5", "6", "7", "8", "9">>
IsDigit(c) == \E i \in 1..10 : Digits[i] = c
DigitVal(c) == (CHOOSE i \in 1..10 : Digits[i] = c) - 1

RECURSIVE IntToStr(_)
\* str(n) for n >= 0
IntToStr(n) ==
    IF n < 10 THEN <<Digits[n + 1]>>
    ELSE IntToStr(n \div 10) \o <<Digits[(n % 10) + 1]>>

\* str(x)
Str(x) ==
    CASE x.t = "str" -> x.s
      [] x.t = "int" -> IntToStr(x.v)
      [] x.t = "none" -> <<"N", "o", "n", "e">>
      [] x.t = "bigint" -> <<"1">> \o [i \in 1..400 |-> "0"]
      [] OTHER -> <<"[", "]">>

\* s[:n]
Take(s, n) == SubSeq(s, 1, IF Len(s) < n THEN Len(s) ELSE n)

RECURSIVE LStrip(_)
LStrip(s) == IF s # << >> /\ Head(s) = " " THEN LStrip(Tail(s)) ELSE s

RECURSIVE RStrip(_)
RStrip(s) ==
    IF s # << >> /\ s[Len(s)] = " " THEN RStrip(SubSeq(s, 1, Len(s) - 1)) ELSE s

\* s.strip()
Strip(s) == LStrip(RStrip(s))

\* s.replace(c, "")
Remove(s, c) == SelectSeq(s, LAMBDA x : x # c)

RECURSIVE DigitsToInt(_)
DigitsToInt(s) ==
    IF s = << >> THEN 0
    ELSE 10 * DigitsToInt(SubSeq(s, 1, Len(s) - 1)) + DigitVal(s[Len(s)])

\* Results of a numeric coercion: None, a number, or a raised exception.
NumNone == [k |-> "none", v |-> 0]
Num(n) == [k |-> "num", v |-> n]
NumRaise == [k |-> "raise", v |-> 0]

\* float(s) of a string over digits, "$", ",", " " and letters: surrounding
\* blanks are ignored, a non-empty run of digits is its value, anything else
\* is a ValueError (given as None, which is what safe_float makes of it).
ParseFloat(s) ==
    LET u == Strip(s)
    IN IF u # << >> /\ \A i \in 1..Len(u) : IsDigit(u[i])
       THEN Num(DigitsToInt(u))
       ELSE NumNone

safe_float(x) ==
    CASE x.t = "none" -> NumNone
      [] x.t = "int" -> Num(x.v)
      [] x.t = "bigint" -> NumRaise
      [] OTHER ->
           LET s == Strip(Str(x))
           IN IF s = << >> THEN NumNone
              ELSE ParseFloat(Remove(Remove(s, "$"), ","))

\* ------------------------------------------------------- IPO records
Fields ==
    {"date", "ipoDate", "symbol", "ticker", "name", "companyName", "company",
     "totalSharesValue", "proceeds", "totalValue",
     "price", "offerPrice", "finalPrice",
     "numberOfShares", "shares", "sharesOffered"}

\* it.get(a) or it.get(b) or it.get(c)
Get3(it, a, b, c) == Or(Or(it[a], it[b]), it[c])

\* A result of compute_offer_amount: (amount, method), or a raised exception.
compute_offer_amount(item) ==
    LET total == safe_float(Get3(item, "totalSharesValue", "proceeds", "totalValue"))
        price == safe_float(Get3(item, "price", "offerPrice", "finalPrice"))
        shares == safe_float(Get3(item, "numberOfShares", "shares", "sharesOffered"))
    IN  IF total.k = "raise" THEN [raised |-> TRUE, amount |-> NumNone, method |-> ""]
        ELSE IF total.k = "num"
        THEN [raised |-> FALSE, amount |-> total, method |-> "provided_total"]
        ELSE IF price.k = "raise" \/ shares.k = "raise"
        THEN [raised |-> TRUE, amount |-> NumNone, method |-> ""]
        ELSE IF price.k = "none" \/ shares.k = "none"
        THEN [raised |-> FALSE, amount |-> NumNone, method |-> "missing_price_or_shares"]
        ELSE [raised |-> FALSE, amount |-> Num(price.v * shares.v),
              method |-> "price_x_shares"]

NA == S(<<"N", "/", "A">>)

\* c.upper(), for the letters the inputs are written in.
UpperChar(c) ==
    CASE c = "a" -> "A" [] c = "b" -> "B" [] c = "c" -> "C" [] c = "x" -> "X"
      [] c = "o" -> "O" [] c = "n" -> "N" [] c = "e" -> "E" [] OTHER -> c

\* s.upper()
Upper(s) == [i \in 1..Len(s) |-> UpperChar(s[i])]

RECURSIVE Group3(_)
\* the digits of a number with "," between groups of three, as format(x, ",")
Group3(s) ==
    IF Len(s) <= 3 THEN s
    ELSE Group3(SubSeq(s, 1, Len(s) - 3)) \o <<",">> \o SubSeq(s, Len(s) - 2, Len(s))

\* f"${x:,.0f}"
FmtAmount(n) == <<"$">> \o Group3(IntToStr(n))

\* f"${x:.2f}"
FmtPrice(n) == <<"$">> \o IntToStr(n) \o <<".", "0", "0">>

\* FilterItem with the threshold test written >= instead of >.
FilterItemGE(it, today_ny) ==
    LET ipo_date == Take(Str(Or(Or(it["date"], it["ipoDate"]), S(<< >>))), 10)
        r == compute_offer_amount(it)
        price == safe_float(Get3(it, "price", "offerPrice", "finalPrice"))
    IN  IF ipo_date # today_ny THEN [k |-> "skip", m |-> << >>]
        ELSE IF r.raised THEN [k |-> "raise", m |-> << >>]
        ELSE IF r.amount.k = "none" THEN [k |-> "skip", m |-> << >>]
        ELSE IF r.amount.v >= OFFER_AMOUNT_THRESHOLD
        THEN IF price.k = "raise" THEN [k |-> "raise", m |-> << >>]
             ELSE [k |-> "match",
                   m |-> <<[Ticker |-> Upper(Str(Or(Or(it["symbol"], it["ticker"]), NA))),
                            Company |-> Or(Get3(it, "name", "companyName", "company"), NA),
                            OfferAmount |-> FmtAmount(r.amount.v),
                            Price |-> IF price.k = "num" THEN FmtPrice(price.v)
                                      ELSE <<"N", "/", "A">>,
                            CalcMethod |-> r.method]>>]
        ELSE [k |-> "skip", m |-> << >>]

\* FilterItem with the date test applied only to records that have a date
\* (if ipo_date and ipo_date != today_ny: continue).
FilterItemNoDatePass(it, today_ny) ==
    LET ipo_date == Take(Str(Or(Or(it["date"], it["ipoDate"]), S(<< >>))), 10)
        r == compute_offer_amount(it)
        price == safe_float(Get3(it, "price", "offerPrice", "finalPrice"))
    IN  IF ipo_date # << >> /\ ipo_date # today_ny THEN [k |-> "skip", m |-> << >>]
        ELSE IF r.raised THEN [k |-> "raise", m |-> << >>]
        ELSE IF r.amount.k = "none" THEN [k |-> "skip", m |-> << >>]
        ELSE IF r.amount.v > OFFER_AMOUNT_THRESHOLD
        THEN IF price.k = "raise" THEN [k |-> "raise", m |-> << >>]
             ELSE [k |-> "match",
                   m |-> <<[Ticker |-> Upper(Str(Or(Or(it["symbol"], it["ticker"]), NA))),
                            Company |-> Or(Get3(it, "name", "companyName", "company"), NA),
                            OfferAmount |-> FmtAmount(r.amount.v),
                            Price |-> IF price.k = "num" THEN FmtPrice(price.v)
                                      ELSE <<"N", "/", "A">>,
                            CalcMethod |-> r.method]>>]
        ELSE [k |-> "skip", m |-> << >>]

\* One pass of the loop body of filter_today_large_ipos over items[i]:
\* "skip" (continue), "raise", or "match" with the Match appended.
FilterItem(it, today_ny) ==
    LET ipo_date == Take(Str(Or(Or(it["date"], it["ipoDate"]), S(<< >>))), 10)
        r == compute_offer_amount(it)
        price == safe_float(Get3(it, "price", "offerPrice", "finalPrice"))
    IN  IF ipo_date # today_ny THEN [k |-> "skip", m |-> << >>]
        ELSE IF r.raised THEN [k |-> "raise", m |-> << >>]
        ELSE IF r.amount.k = "none" THEN [k |-> "skip", m |-> << >>]
        ELSE IF r.amount.v > OFFER_AMOUNT_THRESHOLD
        THEN IF price.k = "raise" THEN [k |-> "raise", m |-> << >>]
             ELSE [k |-> "match",
                   m |-> <<[Ticker |-> Upper(Str(Or(Or(it["symbol"], it["ticker"]), NA))),
                            Company |-> Or(Get3(it, "name", "companyName", "company"), NA),
                            OfferAmount |-> FmtAmount(r.amount.v),
                            Price |-> IF price.k = "num" THEN FmtPrice(price.v)
                                      ELSE <<"N", "/", "A">>,
                            CalcMethod |-> r.method]>>]
        ELSE [k |-> "skip", m |-> << >>]

RECURSIVE FilterLoopDedup(_, _, _, _, _)
\* FilterLoop that drops a Match equal to one already in the list.
FilterLoopDedup(items, today_ny, i, matches, src) ==
    IF i > Len(items) THEN [raised |-> FALSE, matches |-> matches, src |-> src]
    ELSE LET step == FilterItem(items[i], today_ny)
             fresh == step.k = "match"
                      /\ \A j \in 1..Len(matches) : matches[j] # step.m[1]
         IN IF step.k = "raise"
            THEN [raised |-> TRUE, matches |-> << >>, src |-> << >>]
            ELSE FilterLoopDedup(items, today_ny, i + 1,
                                 IF fresh THEN matches \o step.m ELSE matches,
                                 IF fresh THEN Append(src, i) ELSE src)

RECURSIVE FilterLoop(_, _, _, _, _)
\* The for loop from item i on; src lists, per Match, the index of the entry
\* it was built from (bookkeeping of the model, not program state).
FilterLoop(items, today_ny, i, matches, src) ==
    IF i > Len(items) THEN [raised |-> FALSE, matches |-> matches, src |-> src]
    ELSE LET step == FilterItem(items[i], today_ny)
         IN IF step.k = "raise"
            THEN [raised |-> TRUE, matches |-> << >>, src |-> << >>]
            ELSE FilterLoop(items, today_ny, i + 1, matches \o step.m,
                            IF step.k = "match" THEN Append(src, i) ELSE src)

filter_today_large_ipos(items, today_ny) ==
    FilterLoop(items, today_ny, 1, << >>, << >>)

\* --------------------------------------------------- dates and clock
\* strftime("%Y-%m-%d") of day d: day d is the date 2024-03-1d.
DateStr(d) == <<"2", "0", "2", "4", "-", "0", "3", "-", "1", Digits[d + 1]>>

\* The times of day the clock is read at.
Slots ==
    <<[hour |-> 7, minute |-> 0], [hour |-> 9, minute |-> 0],
      [hour |-> 9, minute |-> 1], [hour |-> 10, minute |-> 0]>>

\* now_dubai(): a clock value [day, slot] as a datetime.
Reading(c) == [date |-> c.day, hour |-> Slots[c.slot].hour, minute |-> Slots[c.slot].minute]

\* ny_market_date_str(): New York is 8 hours behind Dubai in March (EDT),
\* so before 08:00 in Dubai it is still the previous day there.
ny_market_date_str(c) ==
    IF Slots[c.slot].hour >= 8 THEN DateStr(c.day) ELSE DateStr(c.day - 1)

\* --------------------------------------------------------- the fetch
\* Retry(total=3, ...) and its status_forcelist.
RetryTotal == 3
StatusForcelist == {429, 500, 502, 503, 504}

ErrNone == [set |-> FALSE, msg |-> "", code |-> 0]
Err(msg, code) == [set |-> TRUE, msg |-> msg, code |-> code]

FetchResult(items, error_summary) ==
    [source |-> "FINNHUB", items |-> items, error_summary |-> error_summary]

\* session.get(...) through the retrying adapter. The server fails the first
\* server.fails attempts with server.transient (a retriable status or a
\* connection error) and answers server.final from then on. A retriable
\* answer is retried while retries are left; with raise_on_status=False the
\* last response is handed back, while a connection error left after the
\* last retry is raised.
SessionGet(server) ==
    IF server.fails > RetryTotal THEN server.transient ELSE server.final

\* The attempts session.get makes.
Attempts(server) ==
    LET retriable(o) == o.kind # "http" \/ o.status \in StatusForcelist
    IN IF server.fails > RetryTotal THEN RetryTotal + 1
       ELSE IF retriable(server.final) THEN RetryTotal + 1
       ELSE server.fails + 1

IsDict(e) == e.isdict

\* fetch_ipos_finnhub with the status test written > 400 instead of >= 400.
fetch_status_gt(server) ==
    LET r == SessionGet(server)
    IN  IF r.kind = "ssl_error" THEN FetchResult(<< >>, Err("FINNHUB SSL error", 0))
        ELSE IF r.kind = "error" THEN FetchResult(<< >>, Err("FINNHUB error", 0))
        ELSE IF r.status > 400
        THEN FetchResult(<< >>, Err("FINNHUB HTTP", r.status))
        ELSE IF r.json = "invalid"
        THEN FetchResult(<< >>, Err("FINNHUB non-JSON response", 0))
        ELSE IF r.json # "dict"
        THEN FetchResult(<< >>, Err("FINNHUB unexpected JSON type", 0))
        ELSE IF r.calendar \in {"missing", "null"}
        THEN FetchResult(<< >>, Err("FINNHUB missing 'ipoCalendar'", 0))
        ELSE IF r.calendar # "list"
        THEN FetchResult(<< >>, Err("FINNHUB ipoCalendar not a list", 0))
        ELSE LET dicts == SelectSeq(r.entries, IsDict)
             IN FetchResult([i \in 1..Len(dicts) |-> dicts[i].rec], ErrNone)

fetch_ipos_finnhub(server) ==
    LET r == SessionGet(server)
    IN  IF r.kind = "ssl_error" THEN FetchResult(<< >>, Err("FINNHUB SSL error", 0))
        ELSE IF r.kind = "error" THEN FetchResult(<< >>, Err("FINNHUB error", 0))
        ELSE IF r.status >= 400
        THEN FetchResult(<< >>, Err("FINNHUB HTTP", r.status))
        ELSE IF r.json = "invalid"
        THEN FetchResult(<< >>, Err("FINNHUB non-JSON response", 0))
        ELSE IF r.json # "dict"
        THEN FetchResult(<< >>, Err("FINNHUB unexpected JSON type", 0))
        ELSE IF r.calendar \in {"missing", "null"}
        THEN FetchResult(<< >>, Err("FINNHUB missing 'ipoCalendar'", 0))
        ELSE IF r.calendar # "list"
        THEN FetchResult(<< >>, Err("FINNHUB ipoCalendar not a list", 0))
        ELSE LET dicts == SelectSeq(r.entries, IsDict)
             IN FetchResult([i \in 1..Len(dicts) |-> dicts[i].rec], ErrNone)

\* ---------------------------------------------------------- the report
\* render_email that leaves the Errors section out of the no-match report.
render_email_no_errors(today_ny, matches, errors, total_items, run_ts) ==
    LET error_block == IF errors # << >> THEN errors ELSE << >>
    IN  IF matches # << >>
        THEN [subject |-> [form |-> "US IPOs Today > $200M", date |-> today_ny],
              body |-> [heading |-> "US IPOs Today (Offer Amount > $200M)",
                        date |-> today_ny, run_ts |-> run_ts,
                        total_items |-> total_items, rows |-> matches,
                        error_block |-> error_block]]
        ELSE [subject |-> [form |-> "No US IPOs Today > $200M", date |-> today_ny],
              body |-> [heading |-> "No US IPOs Today Above Threshold",
                        date |-> today_ny, run_ts |-> run_ts,
                        total_items |-> total_items, rows |-> << >>,
                        error_block |-> << >>]]

render_email(today_ny, matches, errors, total_items, run_ts) ==
    LET error_block == IF errors # << >> THEN errors ELSE << >>
    IN  IF matches # << >>
        THEN [subject |-> [form |-> "US IPOs Today > $200M", date |-> today_ny],
              body |-> [heading |-> "US IPOs Today (Offer Amount > $200M)",
                        date |-> today_ny, run_ts |-> run_ts,
                        total_items |-> total_items, rows |-> matches,
                        error_block |-> error_block]]
        ELSE [subject |-> [form |-> "No US IPOs Today > $200M", date |-> today_ny],
              body |-> [heading |-> "No US IPOs Today Above Threshold",
                        date |-> today_ny, run_ts |-> run_ts,
                        total_items |-> total_items, rows |-> << >>,
                        error_block |-> error_block]]

\* ------------------------------------------------- inputs of the model
\* An IPO record with the given fields; every other key is absent.
Rec(o) == [f \in Fields |-> IF f \in DOMAIN o THEN o[f] ELSE None]

Total250 == S(<<"$", "2", "5", "0", ",", "0", "0", "0", ",", "0", "0", "0">>)
Sym == S(<<"a", "b", "c">>)
Acme == S(<<"A", "c", "m", "e">>)

\* Records dated `d` (a date string), with `y` the day before.
RecTotal(d) ==
    Rec([date |-> S(d), symbol |-> Sym, name |-> Acme, totalSharesValue |-> I(250000000)])
RecPxS(d) ==
    Rec([ipoDate |-> S(d \o <<"T", "0", "9">>), ticker |-> Sym, price |-> I(25),
         numberOfShares |-> I(10000000)])
RecAtThreshold(d) == Rec([date |-> S(d), symbol |-> Sym, totalSharesValue |-> I(200000000)])
RecOtherDay(y) == Rec([date |-> S(y), symbol |-> Sym, totalSharesValue |-> I(500000000)])
RecNoDate == Rec([symbol |-> Sym, totalSharesValue |-> Total250])
RecHuge(d) == Rec([date |-> S(d), symbol |-> Sym, totalSharesValue |-> Huge])

\* What one attempt of the request can come to.
Http(status, json, calendar, entries) ==
    [kind |-> "http", status |-> status, json |-> json, calendar |-> calendar,
     entries |-> entries]
Raised(kind) ==
    [kind |-> kind, status |-> 0, json |-> "invalid", calendar |-> "missing",
     entries |-> << >>]
Ok(recs) == Http(200, "dict", "list", [i \in 1..Len(recs) |-> [isdict |-> TRUE, rec |-> recs[i]]])
NotADict == [isdict |-> FALSE, rec |-> Rec([symbol |-> None])]

\* A server that answers `final` at once.
Answers(final) == [fails |-> 0, transient |-> Raised("error"), final |-> final]

\* How the API may answer the job's request on the date d (y the day before).
JobServers(d, y) ==
    { Answers(Ok(<< >>)),
      Answers(Ok(<<RecTotal(d)>>)),
      Answers(Ok(<<RecOtherDay(y)>>)),
      Answers(Ok(<<RecAtThreshold(d), RecPxS(d)>>)),
      Answers(Ok(<<RecHuge(d)>>)),
      Answers(Http(404, "invalid", "missing", << >>)),
      Answers(Http(200, "invalid", "missing", << >>)),
      Answers(Http(200, "dict", "missing", << >>)),
      Answers(Raised("ssl_error")),
      [fails |-> RetryTotal + 1, transient |-> Http(500, "invalid", "missing", << >>),
       final |-> Ok(<<RecTotal(d)>>)],
      [fails |-> 1, transient |-> Raised("error"), final |-> Ok(<<RecTotal(d)>>)] }

\* ------------------------------------------------------------- state
VARIABLES
    clock,          \* the Dubai wall clock: [day, slot]
    pc,             \* where the process is
    now,            \* run_daily_9am_dubai_forever: the last reading of the clock
    last_run_date,  \* run_daily_9am_dubai_forever: 0 is None
    today_ny,       \* ipo_monitor_job: locals
    res,
    errors,
    matches,
    email,          \* (subject, body) handed to send_email
    invoked,        \* bookkeeping: calls of ipo_monitor_job per date of the reading
    fetch_calls,    \* bookkeeping: calls of fetch_ipos_finnhub in this job
    send_attempts,  \* bookkeeping: calls of send_email in this job
    send_failed,    \* bookkeeping: send_email raised in this job
    fetch_failed,   \* bookkeeping: the fetch of this job gave an error_summary
    failed_days,    \* bookkeeping: the dates whose job had a failed fetch or send
    call,           \* the pure function applied ("" before), with
    arg,            \* its argument and
    ret             \* its result

vars ==
    <<clock, pc, now, last_run_date, today_ny, res, errors, matches, email,
      invoked, fetch_calls, send_attempts, send_failed, fetch_failed, failed_days,
      call, arg, ret>>

sched == <<now, last_run_date>>
locals == <<today_ny, res, errors, matches, email>>
counts == <<fetch_calls, send_attempts, send_failed, fetch_failed, failed_days>>
pure == <<call, arg, ret>>

NoEmail == [subject |-> [form |-> "", date |-> << >>],
            body |-> [heading |-> "", date |-> << >>, run_ts |-> [day |-> 0, slot |-> 0],
                      total_items |-> 0, rows |-> << >>, error_block |-> << >>]]
NoRes == FetchResult(<< >>, ErrNone)

Init ==
    /\ clock = [day |-> 1, slot |-> 1]
    /\ pc = "poll"
    /\ now = [day |-> 0, slot |-> 0]
    /\ last_run_date = 0
    /\ today_ny = << >>
    /\ res = NoRes
    /\ errors = << >>
    /\ matches = << >>
    /\ email = NoEmail
    /\ invoked = [d \in 1..MaxDay |-> 0]
    /\ fetch_calls = 0
    /\ send_attempts = 0
    /\ send_failed = FALSE
    /\ fetch_failed = FALSE
    /\ failed_days = {}
    /\ call = ""
    /\ arg = << >>
    /\ ret = << >>

\* Time passes: the clock moves on to the next time of day it is read at.
Tick ==
    /\ \/ /\ clock.slot < Len(Slots)
          /\ clock' = [clock EXCEPT !.slot = @ + 1]
       \/ /\ clock.slot = Len(Slots)
          /\ clock.day < MaxDay
          /\ clock' = [day |-> clock.day + 1, slot |-> 1]
    /\ UNCHANGED <<pc, sched, locals, invoked, counts, pure>>

\* Poll that tests the hour alone (no test of the minute).
PollHourOnly ==
    /\ pc = "poll"
    /\ now' = clock
    /\ IF /\ Reading(clock).hour = RUN_HOUR_DUBAI
          /\ last_run_date # Reading(clock).date
       THEN /\ pc' = "job"
            /\ invoked' = [invoked EXCEPT ![clock.day] = @ + 1]
            /\ fetch_calls' = 0
            /\ send_attempts' = 0
            /\ send_failed' = FALSE
            /\ fetch_failed' = FALSE
            /\ UNCHANGED failed_days
       ELSE /\ pc' = "sleep20"
            /\ UNCHANGED <<invoked, counts>>
    /\ UNCHANGED <<clock, last_run_date, locals, pure>>

\* The head of the while loop: read the clock and decide.
Poll ==
    /\ pc = "poll"
    /\ now' = clock
    /\ IF /\ Reading(clock).hour = RUN_HOUR_DUBAI
          /\ Reading(clock).minute = RUN_MINUTE_DUBAI
          /\ last_run_date # Reading(clock).date
       THEN /\ pc' = "job"
            /\ invoked' = [invoked EXCEPT ![clock.day] = @ + 1]
            /\ fetch_calls' = 0
            /\ send_attempts' = 0
            /\ send_failed' = FALSE
            /\ fetch_failed' = FALSE
            /\ UNCHANGED failed_days
       ELSE /\ pc' = "sleep20"
            /\ UNCHANGED <<invoked, counts>>
    /\ UNCHANGED <<clock, last_run_date, locals, pure>>

\* time.sleep(20), then the loop goes round.
Sleep20 ==
    /\ pc = "sleep20"
    /\ pc' = "poll"
    /\ UNCHANGED <<clock, sched, locals, invoked, counts, pure>>

\* ipo_monitor_job up to the fetch: the session, today's date, the request.
JobFetch ==
    /\ pc = "job"
    /\ \E server \in JobServers(ny_market_date_str(clock),
                                ny_market_date_str([clock EXCEPT !.day = @ - 1])) :
          LET r == fetch_ipos_finnhub(server)
          IN /\ res' = r
             /\ errors' = IF r.error_summary.set THEN <<r.error_summary>> ELSE << >>
             /\ fetch_failed' = r.error_summary.set
             /\ failed_days' = IF r.error_summary.set THEN failed_days \cup {now.day}
                               ELSE failed_days
    /\ today_ny' = ny_market_date_str(clock)
    /\ fetch_calls' = fetch_calls + 1
    /\ pc' = "filter"
    /\ UNCHANGED <<clock, sched, matches, email, invoked, send_attempts, send_failed, pure>>

\* matches = filter_today_large_ipos(res.items, today_ny) if res.items else [].
\* An exception the filter raises is caught nowhere: it leaves the job and the
\* scheduler's loop, and the process ends.
JobFilter ==
    /\ pc = "filter"
    /\ LET f == IF res.items # << >> THEN filter_today_large_ipos(res.items, today_ny)
                ELSE [raised |-> FALSE, matches |-> << >>, src |-> << >>]
       IN IF f.raised
          THEN pc' = "crashed" /\ UNCHANGED matches
          ELSE pc' = "render" /\ matches' = f.matches
    /\ UNCHANGED <<clock, sched, today_ny, res, errors, email, invoked, counts, pure>>

JobRender ==
    /\ pc = "render"
    /\ email' = render_email(today_ny, matches, errors, Len(res.items), clock)
    /\ pc' = "send"
    /\ UNCHANGED <<clock, sched, today_ny, res, errors, matches, invoked, counts, pure>>

\* JobSend without the try/except: an exception of send_email leaves the job.
JobSendUncaught ==
    /\ pc = "send"
    /\ send_attempts' = send_attempts + 1
    /\ \E ok \in BOOLEAN :
          /\ send_failed' = ~ok
          /\ failed_days' = IF ok THEN failed_days ELSE failed_days \cup {now.day}
          /\ pc' = IF ok THEN "returned" ELSE "crashed"
    /\ UNCHANGED <<clock, sched, locals, invoked, fetch_calls, fetch_failed, pure>>

\* try: send_email(subject, body) except Exception: print(...). The mail
\* relay accepts the message or some step of the SMTP session raises.
JobSend ==
    /\ pc = "send"
    /\ send_attempts' = send_attempts + 1
    /\ \E ok \in BOOLEAN :
          /\ send_failed' = ~ok
          /\ failed_days' = IF ok THEN failed_days ELSE failed_days \cup {now.day}
    /\ pc' = "returned"
    /\ UNCHANGED <<clock, sched, locals, invoked, fetch_calls, fetch_failed, pure>>

\* AfterJob that does not record the date of the run.
AfterJobForgets ==
    /\ pc = "returned"
    /\ pc' = "sleep70"
    /\ today_ny' = << >>
    /\ res' = NoRes
    /\ errors' = << >>
    /\ matches' = << >>
    /\ email' = NoEmail
    /\ UNCHANGED <<clock, sched, invoked, counts, pure>>

\* Back in the loop after the job: last_run_date = now.date().
AfterJob ==
    /\ pc = "returned"
    /\ last_run_date' = now.day
    /\ pc' = "sleep70"
    /\ today_ny' = << >>
    /\ res' = NoRes
    /\ errors' = << >>
    /\ matches' = << >>
    /\ email' = NoEmail
    /\ UNCHANGED <<clock, now, invoked, counts, pure>>

\* time.sleep(70); continue.
Sleep70 ==
    /\ pc = "sleep70"
    /\ pc' = "poll"
    /\ UNCHANGED <<clock, sched, locals, invoked, counts, pure>>

Next ==
    \/ Tick
    \/ Poll
    \/ Sleep20
    \/ JobFetch
    \/ JobFilter
    \/ JobRender
    \/ JobSend
    \/ AfterJob
    \/ Sleep70

Spec == Init /\ [][Next]_vars

\* ------------------------------------- the pure functions on their own
\* The date the filter is asked for, and the day before.
Today == DateStr(2)
Yesterday == DateStr(1)

\* All sequences over X of length at most n.
SeqsUpTo(X, n) == UNION {[1..k -> X] : k \in 0..n}

\* Entries of an ipoCalendar list: two mappings and one that is none.
FetchEntries ==
    {[isdict |-> TRUE, rec |-> RecTotal(Today)],
     [isdict |-> TRUE, rec |-> RecOtherDay(Yesterday)],
     NotADict}

\* The answers of the server: every branch of the fetcher's decision table.
FetchFinals ==
    {Raised("ssl_error"), Raised("error")}
    \cup {Http(st, "invalid", "missing", << >>) : st \in {200, 399, 400, 404, 500}}
    \cup {Http(st, "list", "missing", << >>) : st \in {200, 399, 400, 404, 500}}
    \cup {Http(st, "dict", cal, << >>) :
            st \in {200, 399, 400, 404, 500}, cal \in {"missing", "null", "notlist"}}
    \cup {Http(st, "dict", "list", es) :
            st \in {200, 399, 400, 404, 500}, es \in SeqsUpTo(FetchEntries, MaxItems)}

FetchServers ==
    {[fails |-> n, transient |-> tr, final |-> f] :
        n \in 0..(RetryTotal + 1),
        tr \in {Http(500, "invalid", "missing", << >>), Http(429, "dict", "list", << >>),
                Raised("error")},
        f \in FetchFinals}

\* Lists of records that mix matches, near misses and a record that raises.
FilterPool ==
    {RecTotal(Today), RecPxS(Today), RecAtThreshold(Today), RecOtherDay(Yesterday),
     RecNoDate, RecHuge(Today)}

\* Single records over every way the amount fields can be filled in.
AmountRecs ==
    {Rec([date |-> S(Today), totalSharesValue |-> a, proceeds |-> b, totalValue |-> c,
          price |-> p, offerPrice |-> q, finalPrice |-> r,
          numberOfShares |-> n, shares |-> m, sharesOffered |-> k]) :
        a \in {None, I(0), I(200000000), I(200000001), Total250,
               S(<<"a", "b", "c">>), S(<<" ">>), Huge},
        b \in {None, I(300000000)},
        c \in {None, I(0), I(250000000)},
        p \in {None, I(0), I(25), S(<<"$", "2", "0">>), Obj},
        q \in {None, I(20)},
        r \in {None, I(25)},
        n \in {None, I(10000000), S(<<"1", "0", ",", "0", "0", "0", ",", "0", "0", "0">>)},
        m \in {None, I(8000000)},
        k \in {None, Huge}}

\* Single records over every way the date fields can be filled in.
DateRecs ==
    {Rec([date |-> d, ipoDate |-> e, symbol |-> s, ticker |-> Sym, company |-> Acme,
          totalSharesValue |-> a]) :
        d \in {None, S(Today), S(Yesterday), S(Today \o <<"T", "0", "1">>),
               S(Take(Today, 7)), S(<< >>), I(0), I(20240312), Obj},
        e \in {None, S(Today), S(Yesterday)},
        s \in {None, Sym},
        a \in {None, I(500000000), I(100)}}

FilterInputs ==
    SeqsUpTo(FilterPool, MaxItems) \cup {<<r>> : r \in AmountRecs \cup DateRecs}

\* The state outside the scheduler: nothing runs but the function applied.
Idle ==
    /\ clock = [day |-> 1, slot |-> 1]
    /\ pc = "idle"
    /\ now = [day |-> 0, slot |-> 0]
    /\ last_run_date = 0
    /\ today_ny = << >>
    /\ res = NoRes
    /\ errors = << >>
    /\ matches = << >>
    /\ email = NoEmail
    /\ invoked = [d \in 1..MaxDay |-> 0]
    /\ fetch_calls = 0
    /\ send_attempts = 0
    /\ send_failed = FALSE
    /\ fetch_failed = FALSE
    /\ failed_days = {}
    /\ call = ""
    /\ ret = << >>

rest == <<clock, pc, sched, locals, invoked, counts>>

InitFetch == Idle /\ arg \in FetchServers

ApplyFetch ==
    /\ call = ""
    /\ call' = "fetch"
    /\ ret' = fetch_ipos_finnhub(arg)
    /\ UNCHANGED <<arg, rest>>

SpecFetch == InitFetch /\ [][ApplyFetch]_vars

InitFilter == Idle /\ arg \in FilterInputs

ApplyFilter ==
    /\ call = ""
    /\ call' = "filter"
    /\ ret' = filter_today_large_ipos(arg, Today)
    /\ UNCHANGED <<arg, rest>>

ApplyAmount ==
    /\ call = ""
    /\ Len(arg) = 1
    /\ call' = "amount"
    /\ ret' = compute_offer_amount(arg[1])
    /\ UNCHANGED <<arg, rest>>

NextFilter == ApplyFilter \/ ApplyAmount

SpecFilter == InitFilter /\ [][NextFilter]_vars

\* ============================================================ claims
InJob == pc \in {"job", "filter", "render", "send", "returned"}

\* C1: whatever the clock reads on successive polls and however long the job
\* takes, ipo_monitor_job is invoked at most once per Dubai calendar date.
C1_AtMostOncePerDate == \A d \in 1..MaxDay : invoked[d] <= 1

\* A poll that read 09:00 on a date whose job had already run, and did not fire.
C1_Witness ==
    /\ pc = "sleep20"
    /\ now.day \in 1..MaxDay
    /\ Reading(now).hour = 9 /\ Reading(now).minute = 0
    /\ last_run_date = now.day
    /\ invoked[now.day] = 1

\* C2: no exception raised inside ipo_monitor_job ends the scheduler's loop.
C2_LoopSurvivesJob == pc # "crashed"

RECURSIVE MappingsOf(_)
\* The entries of a list that are mappings, in the order of the list.
MappingsOf(es) ==
    IF es = << >> THEN << >>
    ELSE (IF Head(es).isdict THEN <<Head(es).rec>> ELSE << >>) \o MappingsOf(Tail(es))

\* C3: fetch_ipos_finnhub always returns a FetchResult; for a raised
\* exception, a status >= 400 (also a 500 left after the retries), a body that
\* is no JSON, no mapping, or has no list under 'ipoCalendar', error_summary is
\* set and items is empty; otherwise error_summary is None and items is the
\* order-preserving subsequence of the entries that are mappings.
C3_FetchTotal ==
    call = "fetch" =>
        LET o == SessionGet(arg)
            bad == \/ o.kind # "http"
                   \/ o.status >= 400
                   \/ o.json # "dict"
                   \/ o.calendar # "list"
        IN /\ DOMAIN ret = {"source", "items", "error_summary"}
           /\ ret.source = "FINNHUB"
           /\ IF bad
              THEN ret.error_summary.set /\ ret.items = << >>
              ELSE ~ret.error_summary.set /\ ret.items = MappingsOf(o.entries)

\* A 500 that outlasted every retry, while the server would have answered well.
C3_Witness ==
    /\ call = "fetch"
    /\ arg.fails = RetryTotal + 1
    /\ arg.transient.kind = "http" /\ arg.transient.status = 500
    /\ arg.final.kind = "http" /\ arg.final.status = 200
    /\ Attempts(arg) = 4
    /\ ret.error_summary.set /\ ret.error_summary.code = 500
    /\ ret.items = << >>

\* C4: no retry at the job level. A job whose fetch gave an error or whose
\* send raised never ends in an exception; it makes exactly one fetch call and
\* at most one send attempt; once it has returned, last_run_date is its date;
\* and its date's job is never invoked a second time.
C4_NoJobRetry ==
    /\ pc = "crashed" => ~fetch_failed /\ ~send_failed
    /\ pc \in {"filter", "render", "send", "returned"} =>
          fetch_calls = 1 /\ send_attempts <= 1
    /\ pc = "returned" => fetch_calls = 1 /\ send_attempts = 1
    /\ \A d \in failed_days :
          /\ invoked[d] = 1
          /\ \/ InJob /\ now.day = d
             \/ last_run_date >= d
    /\ (fetch_failed \/ send_failed) /\ pc \in {"sleep70", "poll", "sleep20"} =>
          /\ last_run_date \in failed_days
          /\ fetch_calls = 1 /\ send_attempts = 1

\* A job whose fetch failed and whose send raised has returned, and a later
\* poll in the same trigger minute has not fired it again.
C4_Witness ==
    /\ pc = "sleep20"
    /\ fetch_failed /\ send_failed
    /\ Reading(now).hour = 9 /\ Reading(now).minute = 0
    /\ last_run_date = now.day
    /\ now.day \in failed_days
    /\ invoked[now.day] = 1

\* The first of the three fields that is not None.
FirstNonNull(it, a, b, c) ==
    IF it[a] # None THEN it[a] ELSE IF it[b] # None THEN it[b] ELSE it[c]

\* C5: a record that carries a direct total (the first non-null of
\* totalSharesValue, proceeds, totalValue) coercible to a number, together
\* with price and share-count fields, gets that direct total with method
\* 'provided_total', never price times shares. (Stated for records all of
\* whose numbers fit a float.)
C5_DirectTotalFirst ==
    call = "amount" =>
        LET it == arg[1]
            direct == FirstNonNull(it, "totalSharesValue", "proceeds", "totalValue")
            price == FirstNonNull(it, "price", "offerPrice", "finalPrice")
            shares == FirstNonNull(it, "numberOfShares", "shares", "sharesOffered")
        IN (/\ \A f \in Fields : it[f].t # "bigint"
            /\ safe_float(direct).k = "num"
            /\ price # None
            /\ shares # None) =>
              /\ ~ret.raised
              /\ ret.method = "provided_total"
              /\ ret.amount = safe_float(direct)

\* The record an entry of the output was built from.
SrcOf(k) == arg[ret.src[k]]

\* C6: the threshold is strict: every Match comes from a record whose
\* computed amount is above 200,000,000 and has Calc Method provided_total or
\* price_x_shares; a record whose amount is 200,000,000, less, or None gives
\* no Match.
C6_StrictThreshold ==
    (call = "filter" /\ ~ret.raised) =>
        /\ \A k \in 1..Len(ret.matches) :
              LET a == compute_offer_amount(SrcOf(k))
              IN /\ ~a.raised /\ a.amount.k = "num"
                 /\ a.amount.v > 200000000
                 /\ ret.matches[k].CalcMethod = a.method
                 /\ ret.matches[k].CalcMethod \in {"provided_total", "price_x_shares"}
        /\ \A i \in 1..Len(arg) :
              LET a == compute_offer_amount(arg[i])
              IN (a.amount.k = "none" \/ a.amount.v <= 200000000) =>
                    \A k \in 1..Len(ret.src) : ret.src[k] # i

\* A record of today worth exactly the threshold was left out beside one that
\* was let in.
C6_Witness ==
    /\ call = "filter"
    /\ arg = <<RecAtThreshold(Today), RecPxS(Today)>>
    /\ ~ret.raised
    /\ ret.src = <<2>>
    /\ ret.matches[1].OfferAmount = Total250.s
    /\ ret.matches[1].CalcMethod = "price_x_shares"

\* The date the filter reads off a record: 'date', or else 'ipoDate', an
\* empty or zero value counting as none; "" when there is none.
DateOf(it) ==
    IF it["date"] \notin {None, S(<< >>), I(0)} THEN Str(it["date"])
    ELSE IF it["ipoDate"] \notin {None, S(<< >>), I(0)} THEN Str(it["ipoDate"])
    ELSE << >>

\* C7: a record with neither 'date' nor 'ipoDate', and a record whose date
\* differs from target_date in its first 10 characters, gives no Match,
\* whatever its offer amount.
C7_DateExcludes ==
    (call = "filter" /\ ~ret.raised) =>
        \A i \in 1..Len(arg) :
            (\/ arg[i]["date"] = None /\ arg[i]["ipoDate"] = None
             \/ Take(DateOf(arg[i]), 10) # Today) =>
                \A k \in 1..Len(ret.src) : ret.src[k] # i

\* A record of yesterday worth $500M, alone in the list, gave no Match.
C7_Witness ==
    /\ call = "filter"
    /\ arg = <<RecOtherDay(Yesterday)>>
    /\ compute_offer_amount(arg[1]).amount.v = 500000000
    /\ ~ret.raised
    /\ ret.matches = << >>

\* C8: a failed fetch becomes an error note in the day's report: the job
\* still renders and attempts one email with the 'No US IPOs Today > $200M'
\* subject, a record count of 0 and the error_summary in its Errors section;
\* and a report that lists matches carries no Errors section.
C8_FetchErrorReported ==
    /\ (fetch_failed /\ InJob) => res.error_summary.set
    /\ (InJob /\ pc # "job" /\ res.error_summary.set) =>
          /\ fetch_failed
          /\ res.items = << >>
          /\ errors = <<res.error_summary>>
    /\ pc = "crashed" => ~fetch_failed
    /\ (pc \in {"send", "returned"} /\ fetch_failed) =>
          /\ email.subject.form = "No US IPOs Today > $200M"
          /\ email.subject.date = today_ny
          /\ email.body.total_items = 0
          /\ email.body.rows = << >>
          /\ \E j \in 1..Len(email.body.error_block) :
                email.body.error_block[j] = res.error_summary
    /\ (pc = "returned" /\ fetch_failed) => send_attempts = 1
    /\ (pc \in {"send", "returned"} /\ email.body.rows # << >>) =>
          /\ email.subject.form = "US IPOs Today > $200M"
          /\ email.body.error_block = << >>

\* The email of a job whose fetch ended in HTTP 500 has been handed to the mailer.
C8_Witness ==
    /\ pc = "returned"
    /\ fetch_failed
    /\ send_attempts = 1
    /\ res.error_summary.code = 500
    /\ email.body.error_block = <<Err("FINNHUB HTTP", 500)>>

\* C9: a poll invokes the job if and only if the reading is 09:00 and
\* last_run_date is not the reading's date, and it leaves last_run_date
\* alone; the job runs to its end before the clock is read again; when the job
\* has returned last_run_date becomes the date of the reading that fired it;
\* no other step invokes the job or changes last_run_date.
C9_TransitionRule ==
    [][ /\ (pc = "poll" /\ pc' # "poll") =>
              /\ now' = clock
              /\ last_run_date' = last_run_date
              /\ pc' \in {"job", "sleep20"}
              /\ pc' = "job" <=>
                    /\ Slots[clock.slot].hour = 9
                    /\ Slots[clock.slot].minute = 0
                    /\ last_run_date # clock.day
              /\ pc' = "job" => invoked' = [invoked EXCEPT ![clock.day] = @ + 1]
              /\ pc' = "sleep20" => invoked' = invoked
        /\ invoked' # invoked => pc = "poll" /\ pc' = "job"
        /\ now' # now => pc = "poll"
        /\ (pc = "returned" /\ pc' # "returned") =>
              last_run_date' = now.day /\ pc' = "sleep70"
        /\ last_run_date' # last_run_date => pc = "returned"
        /\ (pc = "sleep70" /\ pc' # pc) => pc' = "poll"
      ]_vars

\* The job fired by the reading of 09:00 on the second day has returned and
\* last_run_date is that day, the first day's job having run too.
C9_Witness ==
    /\ pc = "sleep70"
    /\ now = [day |-> 2, slot |-> 2]
    /\ last_run_date = 2
    /\ invoked[1] = 1 /\ invoked[2] = 1

\* A record qualifies when its date is the target date and its amount is
\* above the threshold.
Qualifies(it) ==
    /\ Take(DateOf(it), 10) = Today
    /\ compute_offer_amount(it).amount.k = "num"
    /\ compute_offer_amount(it).amount.v > 200000000

\* C10: the output holds exactly one Match per qualifying record, in the
\* order of the input, with no dedup and no sort: equal qualifying records
\* give equal Matches, one each.
C10_OrderKept ==
    (call = "filter" /\ ~ret.raised) =>
        /\ Len(ret.matches) = Len(ret.src)
        /\ Len(ret.src) = Cardinality({i \in 1..Len(arg) : Qualifies(arg[i])})
        /\ \A k \in 1..Len(ret.src) :
              /\ ret.src[k] \in 1..Len(arg)
              /\ Qualifies(SrcOf(k))
              /\ ret.matches[k] = FilterItem(SrcOf(k), Today).m[1]
        /\ \A j, k \in 1..Len(ret.src) : j < k => ret.src[j] < ret.src[k]

\* The same qualifying record twice, around one that does not qualify, gave
\* two equal Matches.
C10_Witness ==
    /\ call = "filter"
    /\ arg = <<RecTotal(Today), RecOtherDay(Yesterday), RecTotal(Today)>>
    /\ ~ret.raised
    /\ ret.src = <<1, 3>>
    /\ Len(ret.matches) = 2
    /\ ret.matches[1] = ret.matches[2]
    /\ ret.matches[1].Ticker = <<"A", "B", "C">>

====
